---- MODULE Spec2Model ----
(***************************************************************************)
(* A model of src/us_army.py: the crawl of a hierarchical directory        *)
(* (scrape_main_components, scrape_nested_structure, scrape_flat_structure)*)
(* with its module-level visited set, the metadata extraction              *)
(* (extract_additional_info) and the statistics fold (count_statistics).   *)
(*                                                                         *)
(* A parsed page (a "soup") is the sequence of its elements in document    *)
(* order.  An element is [text, href, sels]: its raw text, its href        *)
(* attribute (None when it has none) and the set of CSS patterns of the    *)
(* program that match it.  soup.select is the filter of that sequence.     *)
(* Hrefs are taken after URL resolution (lines 67-68, 116-117, 170-171,    *)
(* 199-200), so every href is an absolute URL or None.                     *)
(*                                                                         *)
(* The recursion is an explicit stack of loop activations; stack[1] is the *)
(* innermost one.  Every fetch is appended to a log.                       *)
(***************************************************************************)
EXTENDS Integers, Sequences, FiniteSets, TLC

\* ---------------------------------------------------------------- bounds
NumUrls == 5
MaxFailures == 1
MaxPageElems == 2
MaxStatNodes == 5

\* ------------------------------------------------------ program constants
DEFAULT_MAX_DEPTH == 3
TARGET_URL == 0

URLs == 0..(NumUrls - 1)
None == -1
SP == " "

\* ------------------------------------------------------------------ text
RECURSIVE LStrip(_)
LStrip(s) == IF s # <<>> /\ Head(s) = SP THEN LStrip(Tail(s)) ELSE s

RECURSIVE RStrip(_)
RStrip(s) == IF s # <<>> /\ s[Len(s)] = SP THEN RStrip(SubSeq(s, 1, Len(s) - 1)) ELSE s

\* element.get_text(strip=True)
get_text(e) == RStrip(LStrip(e.text))

\* ------------------------------------------------------------- selectors
MAIN_SELECTOR == "div > a:has(h4)"

\* Whether element e matches the pattern registered under `selector`.
Matches(e, selector) ==
    CASE selector = "flat_list"        -> "flat" \in e.sels
      [] selector = "first_level"      -> "first" \in e.sels
      [] selector = "second_level"     -> "second" \in e.sels
      [] selector = "third_level"      -> "third" \in e.sels
      [] selector = "full_unit_name"   -> "grippy" \in e.sels \/ "third" \in e.sels
      [] selector = "location_name"    -> "loc" \in e.sels
      [] selector = "location_details" -> "idet" \in e.sels
      [] selector = MAIN_SELECTOR      -> "h4" \in e.sels

\* soup.select(SELECTORS[selector]): the matching elements in document order
Select(soup, selector) == SelectSeq(soup, LAMBDA e : Matches(e, selector))

has_nested_structure(soup) == Len(Select(soup, "second_level")) > 0

\* InfoField that sets the key whether or not an element matches.
InfoFieldAlways(soup, key) ==
    key :> (IF Select(soup, key) # <<>> THEN get_text(Select(soup, key)[1]) ELSE <<>>)

\* One field of extract_additional_info: the key is set iff an element matches.
InfoField(soup, key) ==
    IF Select(soup, key) # <<>>
    THEN key :> get_text(Select(soup, key)[1])
    ELSE << >>

extract_additional_info(soup) ==
    InfoField(soup, "full_unit_name") @@ InfoField(soup, "location_name")
        @@ InfoField(soup, "location_details")

\* The selector scrape_nested_structure uses at a depth (lines 101-106).
LevelSelector(depth) ==
    IF depth = 0 THEN "first_level"
    ELSE IF depth = 1 THEN "second_level"
    ELSE "third_level"

\* ----------------------------------------------------------------- nodes
LevelTag(k) == "level_" \o ToString(k) \o "_item"

\* {'name': name, 'url': href, 'type': type, **info}
Node(name, href, type, info) ==
    [name |-> name, url |-> href, type |-> type] @@ info

NoNode == [type |-> "none"]

\* Attach without the emptiness test.
AttachAlways(node, slot, items) == node @@ (slot :> items)

\* if items: node[slot] = items
Attach(node, slot, items) ==
    IF items # <<>> THEN node @@ (slot :> items) ELSE node

\* ------------------------------------------------------------- the pages
Elem(text, href, sels) == [text |-> text, href |-> href, sels |-> sels]

NameTxt == <<SP, "n">>
BlankTxt == <<SP>>

\* How the program's patterns match the links of a directory page: an anchor
\* wrapping a heading; a plain list link; a top-level list link after the
\* inline marker (first and second level); a list link two lists deep after
\* the marker (second and third level, which is also a full-name match).
H4 == {"h4"}
FLAT == {"flat"}
TOP == {"flat", "first", "second"}
DEEP == {"flat", "second", "third"}

Link(k, h) == Elem(NameTxt, h, k)
Blank(k, h) == Elem(BlankTxt, h, k)

\* The URLs a page at u links to: itself, and the next two URLs of the ring.
Fwd(u) == (u + 1) % NumUrls
Fwd2(u) == (u + 2) % NumUrls

\* Index pages: one branch, two branches, the same branch twice, a branch
\* with a blank heading or without href before a well-formed one, and an
\* index that lists itself and carries a nested list.
IndexPages(u) ==
    { <<Link(H4, Fwd(u))>>,
      <<Link(H4, Fwd(u)), Link(H4, Fwd2(u))>>,
      <<Link(H4, Fwd(u)), Link(H4, Fwd(u))>>,
      <<Blank(H4, Fwd(u)), Link(H4, Fwd2(u))>>,
      <<Link(H4, None), Link(H4, Fwd(u))>>,
      <<Link(H4, u), Link(TOP, Fwd(u))>> }

\* Flat rosters: two items, and a blank-named or href-less item before one.
FlatPages(u) ==
    { <<Link(FLAT, Fwd(u)), Link(FLAT, Fwd2(u))>>,
      <<Blank(FLAT, Fwd(u)), Link(FLAT, Fwd(u))>>,
      <<Link(FLAT, None), Link(FLAT, Fwd(u))>> }

\* Nested lists: one child, two children, a back-reference to the page itself
\* before a child, a blank-named child before a well-formed one.
NestedPages(u) ==
    { <<Link(TOP, Fwd(u))>>,
      <<Link(TOP, Fwd(u)), Link(TOP, Fwd2(u))>>,
      <<Link(TOP, u), Link(TOP, Fwd(u))>>,
      <<Blank(TOP, Fwd(u)), Link(TOP, Fwd2(u))>>,
      <<Link(DEEP, Fwd(u))>>,
      <<Link(DEEP, Fwd(u)), Link(DEEP, Fwd2(u))>> }

\* The pages the directory may serve at u.
Pages(u) == { <<>> } \cup IndexPages(u) \cup FlatPages(u) \cup NestedPages(u)

\* ----------------------------------------------------------------- state
VARIABLES
    visited_urls,     \* the module-level visited set (line 13)
    web,              \* the directory: web[u] is <<>> until u is first served, then <<page>>
    failures,         \* number of fetches that failed so far
    log,              \* every get_soup call, in order: [url, by, depth, ok]
    stack,            \* loop activations, innermost first
    phase,            \* "start", "crawl", "done", "reported"
    max_depth,        \* the max_depth argument of the nested pass
    components_data,  \* what scrape_main_components returned (line 239)
    nested_ret,       \* what a directly invoked scrape_nested_structure returned
    stats,            \* count_statistics(components_data) (line 314)
    total_visited,    \* the reported len(visited_urls) (line 326)
    page,             \* the document handed to extract_additional_info
    info              \* what extract_additional_info returned for it

vars == <<visited_urls, web, failures, log, stack, phase, max_depth,
          components_data, nested_ret, stats, total_visited, page, info>>

NoStats == [main_branches |-> -1]

Frame(fn, pc, url, depth, todo, node, slot) ==
    [fn |-> fn, pc |-> pc, url |-> url, depth |-> depth, todo |-> todo,
     acc |-> <<>>, node |-> node, slot |-> slot]

\* ------------------------------------------------------------- get_soup
Failed == [ok |-> FALSE, soup |-> <<>>]

\* What get_soup(url) can return: None on any error (a missing URL always
\* errs), otherwise the page the directory serves at url.
get_soup(url) ==
    (IF url = None \/ failures < MaxFailures THEN {Failed} ELSE {})
        \cup (IF url = None THEN {}
              ELSE { [ok |-> TRUE, soup |-> d] :
                        d \in (IF web[url] = <<>> THEN Pages(url) ELSE {web[url][1]}) })

\* The bookkeeping of one get_soup call.
Fetched(url, r, by, depth) ==
    /\ web' = IF r.ok THEN [web EXCEPT ![url] = <<r.soup>>] ELSE web
    /\ failures' = IF r.ok \/ url = None THEN failures ELSE failures + 1
    /\ log' = Append(log, [url |-> url, by |-> by, depth |-> depth, ok |-> r.ok])

Top == stack[1]
Rest == Tail(stack)

\* Advance as a break: the remaining elements are dropped.
AdvanceBreaks(fr) == [fr EXCEPT !.todo = <<>>]

\* The loop moves on to its next element (continue, or the end of the body).
Advance(fr) == [fr EXCEPT !.todo = Tail(@)]

\* ReturnTo that puts the finished node at the front of the caller's list.
ReturnToFront(rest, fr, items) ==
    IF rest = <<>> THEN rest
    ELSE <<[rest[1] EXCEPT !.acc = <<Attach(fr.node, fr.slot, items)>> \o @]>>
            \o Tail(rest)

\* ReturnTo that never hands the list back: the finished loop stays where it is.
ReturnToNowhere(rest, fr, items) == <<fr>> \o rest

\* The innermost loop has ended and returns `items` to its caller: the caller
\* attaches them to the node they belong to, unless empty, and appends that
\* node to its own list (lines 140-149, 219-226, 229-232).
ReturnTo(rest, fr, items) ==
    IF rest = <<>> THEN rest
    ELSE <<[rest[1] EXCEPT !.acc = Append(@, Attach(fr.node, fr.slot, items))]>>
            \o Tail(rest)

\* ------------------------------------------------ scrape_main_components
\* EntryAborts without the guard.
EntryNeverAborts(r) == FALSE

\* Lines 159-160: if not soup: return []
EntryAborts(r) == ~r.ok

\* Lines 153-164: clear the visited set, fetch the entry page.
ScrapeMainStart ==
    /\ phase = "start"
    /\ visited_urls' = {}
    /\ \E r \in get_soup(TARGET_URL) :
        /\ Fetched(TARGET_URL, r, "entry", 0)
        /\ IF EntryAborts(r)
           THEN /\ components_data' = <<>>
                /\ phase' = "done"
                /\ stack' = <<>>
           ELSE /\ stack' = <<Frame("main", "loop", TARGET_URL, 0,
                                    Select(r.soup, MAIN_SELECTOR), NoNode, "none")>>
                /\ phase' = "crawl"
                /\ UNCHANGED components_data
    /\ UNCHANGED <<max_depth, nested_ret, stats, total_visited, page, info>>

\* BranchSeen without the visited test.
BranchSeenNever(href) == FALSE

\* Line 175: if href in visited_urls: continue
BranchSeen(href) == href \in visited_urls

\* Lines 165-192: one main-branch candidate.
MainLoop ==
    /\ phase = "crawl" /\ stack # <<>>
    /\ Top.fn = "main" /\ Top.todo # <<>>
    /\ LET a_tag == Head(Top.todo)
           name == get_text(a_tag)
           href == a_tag.href
       IN  IF BranchSeen(href)
           THEN /\ stack' = <<Advance(Top)>> \o Rest
                /\ UNCHANGED <<web, failures, log>>
           ELSE \E r \in get_soup(href) :
                /\ Fetched(href, r, "branch", 0)
                /\ stack' =
                     IF ~r.ok THEN <<Advance(Top)>> \o Rest
                     ELSE <<Frame("branch", "loop", href, 0,
                                  Select(r.soup, MAIN_SELECTOR),
                                  Node(name, href, "main_branch",
                                       extract_additional_info(r.soup)),
                                  "subcategories"),
                            Advance(Top)>> \o Rest
    /\ UNCHANGED <<visited_urls, phase, max_depth, components_data, nested_ret,
                   stats, total_visited, page, info>>

\* Lines 194-224: one subcategory candidate of the current branch.
BranchLoop ==
    /\ phase = "crawl" /\ stack # <<>>
    /\ Top.fn = "branch" /\ Top.todo # <<>>
    /\ LET sub_a_tag == Head(Top.todo)
           sub_name == get_text(sub_a_tag)
           sub_href == sub_a_tag.href
       IN  \E r \in get_soup(sub_href) :
            /\ Fetched(sub_href, r, "subcat", 0)
            /\ stack' =
                 IF ~r.ok THEN <<Advance(Top)>> \o Rest
                 ELSE LET subcategory == Node(sub_name, sub_href, "subcategory",
                                              extract_additional_info(r.soup))
                      IN  IF has_nested_structure(r.soup)
                          THEN <<Frame("nested", "enter", sub_href, 0, <<>>,
                                       subcategory, "units"),
                                 Advance(Top)>> \o Rest
                          ELSE <<Frame("flat", "loop", sub_href, 0,
                                       Select(r.soup, "flat_list"),
                                       subcategory, "units"),
                                 Advance(Top)>> \o Rest
    /\ UNCHANGED <<visited_urls, phase, max_depth, components_data, nested_ret,
                   stats, total_visited, page, info>>

\* MarkBranch as an assignment: the set is replaced.
MarkBranchOnly(href) == {href}

\* MarkBranch that marks nothing.
MarkBranchNever(href) == visited_urls

\* Line 235: visited_urls.add(href)
MarkBranch(href) == visited_urls \cup {href}

\* Lines 229-235: the branch's subcategories are done; the branch is appended
\* and its URL marked visited.
BranchDone ==
    /\ phase = "crawl" /\ stack # <<>>
    /\ Top.fn = "branch" /\ Top.todo = <<>>
    /\ stack' = ReturnTo(Rest, Top, Top.acc)
    /\ visited_urls' = MarkBranch(Top.url)
    /\ UNCHANGED <<web, failures, log, phase, max_depth, components_data,
                   nested_ret, stats, total_visited, page, info>>

\* Line 237: return main_components.
MainReturn ==
    /\ phase = "crawl" /\ stack # <<>>
    /\ Top.fn = "main" /\ Top.todo = <<>>
    /\ components_data' = Top.acc
    /\ stack' = <<>>
    /\ phase' = "done"
    /\ UNCHANGED <<visited_urls, web, failures, log, max_depth, nested_ret,
                   stats, total_visited, page, info>>

\* ----------------------------------------------- scrape_nested_structure
\* Completion of the outermost call when the nested pass was invoked directly.
Finish(rest, items) ==
    /\ phase' = IF rest = <<>> THEN "done" ELSE phase
    /\ nested_ret' = IF rest = <<>> THEN items ELSE nested_ret

\* Terminal without the depth test.
TerminalVisitedOnly(url, depth) == url \in visited_urls

\* Line 88: if url in visited_urls or depth > max_depth: return []
Terminal(url, depth) == url \in visited_urls \/ depth > max_depth

\* MarkEntered after the fetch, and only when it succeeded.
MarkEnteredIfFetched(url, r) == IF r.ok THEN visited_urls \cup {url} ELSE visited_urls

\* Line 91: visited_urls.add(url), whatever the fetch of line 93 gives.
MarkEntered(url, r) == visited_urls \cup {url}

\* Lines 88-108: the terminal check, the visited mark, the page fetch and
\* the selection of the child links.
NestedEnter ==
    /\ phase = "crawl" /\ stack # <<>>
    /\ Top.fn = "nested" /\ Top.pc = "enter"
    /\ IF Terminal(Top.url, Top.depth)
       THEN /\ stack' = ReturnTo(Rest, Top, <<>>)
            /\ Finish(Rest, <<>>)
            /\ UNCHANGED <<visited_urls, web, failures, log>>
       ELSE \E r \in get_soup(Top.url) :
                /\ visited_urls' = MarkEntered(Top.url, r)
                /\ Fetched(Top.url, r, "page", Top.depth)
                /\ IF ~r.ok
                   THEN /\ stack' = ReturnTo(Rest, Top, <<>>)
                        /\ Finish(Rest, <<>>)
                   ELSE /\ stack' = <<[Top EXCEPT
                                        !.pc = "loop",
                                        !.todo = Select(r.soup, LevelSelector(Top.depth))]>>
                                    \o Rest
                        /\ UNCHANGED <<phase, nested_ret>>
    /\ UNCHANGED <<max_depth, components_data, stats, total_visited, page, info>>

\* Descend with the depth test off by one.
DescendAtMaxDepth(depth, r) == depth <= max_depth /\ r.ok

\* Whether a fetched child is descended into (lines 136-137).
Descend(depth, r) == depth < max_depth /\ r.ok

\* Lines 109-149: one child link of the page.
NestedLoop ==
    /\ phase = "crawl" /\ stack # <<>>
    /\ Top.fn = "nested" /\ Top.pc = "loop" /\ Top.todo # <<>>
    /\ LET element == Head(Top.todo)
           name == get_text(element)
           href == element.href
           depth == Top.depth
       IN  IF name = <<>> \/ href = None \/ href \in visited_urls
           THEN /\ stack' = <<Advance(Top)>> \o Rest
                /\ UNCHANGED <<web, failures, log>>
           ELSE \E r \in get_soup(href) :
                /\ Fetched(href, r, "child", depth)
                /\ LET additional_info ==
                           IF r.ok THEN extract_additional_info(r.soup) ELSE << >>
                       item == Node(name, href, LevelTag(depth + 1), additional_info)
                   IN  stack' =
                         IF Descend(depth, r)
                         THEN IF has_nested_structure(r.soup)
                              THEN <<Frame("nested", "enter", href, depth + 1, <<>>,
                                           item, "subunits"),
                                     Advance(Top)>> \o Rest
                              ELSE <<Frame("flat", "loop", href, depth + 1,
                                           Select(r.soup, "flat_list"),
                                           item, "subunits"),
                                     Advance(Top)>> \o Rest
                         ELSE <<[Advance(Top) EXCEPT !.acc = Append(@, item)]>> \o Rest
    /\ UNCHANGED <<visited_urls, phase, max_depth, components_data, nested_ret,
                   stats, total_visited, page, info>>

\* Line 151: return nested_items.
NestedReturn ==
    /\ phase = "crawl" /\ stack # <<>>
    /\ Top.fn = "nested" /\ Top.pc = "loop" /\ Top.todo = <<>>
    /\ stack' = ReturnTo(Rest, Top, Top.acc)
    /\ Finish(Rest, Top.acc)
    /\ UNCHANGED <<visited_urls, web, failures, log, max_depth, components_data,
                   stats, total_visited, page, info>>

\* ------------------------------------------------- scrape_flat_structure
\* FlatSkips that also skips a visited URL, as the nested pass does.
FlatSkipsVisited(name, href) == name = <<>> \/ href = None \/ href \in visited_urls

\* Line 64: if not name or href is None: continue
FlatSkips(name, href) == name = <<>> \/ href = None

\* Lines 60-83: one flat-list link.
FlatLoop ==
    /\ phase = "crawl" /\ stack # <<>>
    /\ Top.fn = "flat" /\ Top.todo # <<>>
    /\ LET element == Head(Top.todo)
           name == get_text(element)
           href == element.href
       IN  IF FlatSkips(name, href)
           THEN /\ stack' = <<Advance(Top)>> \o Rest
                /\ UNCHANGED <<web, failures, log>>
           ELSE \E r \in get_soup(href) :
                /\ Fetched(href, r, "flat", Top.depth)
                /\ LET additional_info ==
                           IF r.ok THEN extract_additional_info(r.soup) ELSE << >>
                       item == Node(name, href, "flat_item", additional_info)
                   IN  stack' = <<[Advance(Top) EXCEPT !.acc = Append(@, item)]>> \o Rest
    /\ UNCHANGED <<visited_urls, phase, max_depth, components_data, nested_ret,
                   stats, total_visited, page, info>>

\* Line 85: return flat_items.
FlatReturn ==
    /\ phase = "crawl" /\ stack # <<>>
    /\ Top.fn = "flat" /\ Top.todo = <<>>
    /\ stack' = ReturnTo(Rest, Top, Top.acc)
    /\ UNCHANGED <<visited_urls, web, failures, log, phase, max_depth,
                   components_data, nested_ret, stats, total_visited, page, info>>

\* ------------------------------------------------------ count_statistics
\* HasLocation that forgets the location name.
HasLocationDetailsOnly(node) == "location_details" \in DOMAIN node

\* node.get(key, [])
Get(node, key) == IF key \in DOMAIN node THEN node[key] ELSE <<>>

\* 'location_name' in node or 'location_details' in node
HasLocation(node) == "location_name" \in DOMAIN node \/ "location_details" \in DOMAIN node
HasFullName(node) == "full_unit_name" \in DOMAIN node
IsFlatItem(node) == "type" \in DOMAIN node /\ node["type"] = "flat_item"
Bit(b) == IF b THEN 1 ELSE 0

\* count_subunits that counts the direct subunits only.
RECURSIVE count_subunits_direct(_)
count_subunits_direct(items) ==
    IF items = <<>> THEN [count |-> 0, flat |-> 0, loc |-> 0, full |-> 0]
    ELSE LET item == Head(items)
             rest == count_subunits_direct(Tail(items))
         IN  [count |-> Len(Get(item, "subunits")) + rest.count,
              flat |-> Bit(IsFlatItem(item)) + rest.flat,
              loc |-> Bit(HasLocation(item)) + rest.loc,
              full |-> Bit(HasFullName(item)) + rest.full]

\* Lines 280-304: (count, flat_count, location_count, fullname_count) of a list.
RECURSIVE count_subunits(_)
count_subunits(items) ==
    IF items = <<>> THEN [count |-> 0, flat |-> 0, loc |-> 0, full |-> 0]
    ELSE LET item == Head(items)
             subunits == Get(item, "subunits")
             sub == count_subunits(subunits)
             rest == count_subunits(Tail(items))
         IN  [count |-> Len(subunits) + sub.count + rest.count,
              flat |-> Bit(IsFlatItem(item)) + sub.flat + rest.flat,
              loc |-> Bit(HasLocation(item)) + sub.loc + rest.loc,
              full |-> Bit(HasFullName(item)) + sub.full + rest.full]

ZeroStats ==
    [main_branches |-> 0, subcategories |-> 0, units |-> 0, subunits |-> 0,
     flat_items |-> 0, with_location |-> 0, with_full_name |-> 0]

AddStats(s, t) ==
    [main_branches |-> s.main_branches + t.main_branches,
     subcategories |-> s.subcategories + t.subcategories,
     units |-> s.units + t.units,
     subunits |-> s.subunits + t.subunits,
     flat_items |-> s.flat_items + t.flat_items,
     with_location |-> s.with_location + t.with_location,
     with_full_name |-> s.with_full_name + t.with_full_name]

\* Lines 271-310: what the subcategories of one branch add to stats.
RECURSIVE SubcatStats(_)
SubcatStats(subcats) ==
    IF subcats = <<>> THEN ZeroStats
    ELSE LET subcat == Head(subcats)
             units == Get(subcat, "units")
             c == count_subunits(units)
         IN  AddStats([ZeroStats EXCEPT
                         !.units = Len(units),
                         !.subunits = c.count,
                         !.flat_items = c.flat,
                         !.with_location = Bit(HasLocation(subcat)) + c.loc,
                         !.with_full_name = Bit(HasFullName(subcat)) + c.full],
                      SubcatStats(Tail(subcats)))

\* Lines 262-310: what the branches add to stats.
RECURSIVE BranchStats(_)
BranchStats(data) ==
    IF data = <<>> THEN ZeroStats
    ELSE LET branch == Head(data)
             subcats == Get(branch, "subcategories")
         IN  AddStats(AddStats([ZeroStats EXCEPT
                                  !.subcategories = Len(subcats),
                                  !.with_location = Bit(HasLocation(branch)),
                                  !.with_full_name = Bit(HasFullName(branch))],
                               SubcatStats(subcats)),
                      BranchStats(Tail(data)))

count_statistics(data) == [BranchStats(data) EXCEPT !.main_branches = Len(data)]

\* Lines 314-326: the statistics and the summary report.
Report ==
    /\ phase = "done"
    /\ stats' = count_statistics(components_data)
    /\ total_visited' = Cardinality(visited_urls)
    /\ phase' = "reported"
    /\ UNCHANGED <<visited_urls, web, failures, log, stack, max_depth,
                   components_data, nested_ret, page, info>>

\* ------------------------------------------- extract_additional_info alone
\* Lines 39-54 applied to the document in `page`.
Extract ==
    /\ phase = "extract"
    /\ info' = extract_additional_info(page)
    /\ phase' = "extracted"
    /\ UNCHANGED <<visited_urls, web, failures, log, stack, max_depth,
                   components_data, nested_ret, stats, total_visited, page>>

\* --------------------------------------------------------- specification
Init ==
    /\ visited_urls = {}
    /\ web = [u \in URLs |-> <<>>]
    /\ failures = 0
    /\ log = <<>>
    /\ stack = <<>>
    /\ phase = "start"
    /\ max_depth = DEFAULT_MAX_DEPTH
    /\ components_data = <<>>
    /\ nested_ret = <<>>
    /\ stats = NoStats
    /\ total_visited = -1
    /\ page = <<>>
    /\ info = << >>

Crawl ==
    \/ ScrapeMainStart
    \/ MainLoop
    \/ BranchLoop
    \/ BranchDone
    \/ MainReturn
    \/ NestedEnter
    \/ NestedLoop
    \/ NestedReturn
    \/ FlatLoop
    \/ FlatReturn

Next == Crawl \/ Report

Spec == Init /\ [][Next]_vars

\* The program is sequential and every call it makes returns (get_soup has a
\* timeout, line 28; the sleeps are finite), so a step of the crawl that can
\* be taken is eventually taken.
SpecLive == Init /\ [][Next]_vars /\ WF_vars(Crawl)

\* ------------------------------- scrape_nested_structure invoked directly
\* scrape_nested_structure(0, 0, M) for every M up to the default, with the
\* root and its first link visited before or not.
InitNested ==
    /\ visited_urls \in SUBSET {TARGET_URL, Fwd(TARGET_URL)}
    /\ web = [u \in URLs |-> <<>>]
    /\ failures = 0
    /\ log = <<>>
    /\ stack = <<Frame("nested", "enter", TARGET_URL, 0, <<>>, NoNode, "none")>>
    /\ phase = "crawl"
    /\ max_depth \in 0..DEFAULT_MAX_DEPTH
    /\ components_data = <<>>
    /\ nested_ret = <<>>
    /\ stats = NoStats
    /\ total_visited = -1
    /\ page = <<>>
    /\ info = << >>

NextNested ==
    \/ NestedEnter
    \/ NestedLoop
    \/ NestedReturn
    \/ FlatLoop
    \/ FlatReturn

SpecNested == InitNested /\ [][NextNested]_vars

\* scrape_nested_structure(0, d, M) for every depth argument d up to one past
\* the default max_depth and every M up to the default, with the root visited
\* before or not.
InitNestedAt ==
    /\ visited_urls \in SUBSET {TARGET_URL}
    /\ web = [u \in URLs |-> <<>>]
    /\ failures = 0
    /\ log = <<>>
    /\ \E d \in 0..(DEFAULT_MAX_DEPTH + 1) :
          stack = <<Frame("nested", "enter", TARGET_URL, d, <<>>, NoNode, "none")>>
    /\ phase = "crawl"
    /\ max_depth \in 0..DEFAULT_MAX_DEPTH
    /\ components_data = <<>>
    /\ nested_ret = <<>>
    /\ stats = NoStats
    /\ total_visited = -1
    /\ page = <<>>
    /\ info = << >>

SpecNestedAt == InitNestedAt /\ [][NextNested]_vars

\* --------------------------------------- extract_additional_info on its own
RECURSIVE SeqsUpTo(_, _)
SeqsUpTo(S, n) ==
    IF n = 0 THEN { <<>> }
    ELSE LET shorter == SeqsUpTo(S, n - 1)
         IN  shorter \cup { Append(q, x) : q \in shorter, x \in S }

\* Elements with empty, blank and padded text that match the full-name
\* pattern (as a .grippy-host or as a third-level link), the location-name
\* pattern, the location-details pattern, or none of the three.
ExtractElems ==
    { Elem(t, h, k) :
        t \in { <<>>, <<SP>>, <<SP, "n", SP>> },
        h \in { None },
        k \in { {"grippy"}, DEEP, {"flat", "loc"}, {"idet"}, FLAT } }

InitExtract ==
    /\ visited_urls = {TARGET_URL}
    /\ web = [u \in URLs |-> <<>>]
    /\ failures = 0
    /\ log = <<>>
    /\ stack = <<>>
    /\ phase = "extract"
    /\ max_depth = DEFAULT_MAX_DEPTH
    /\ components_data = <<>>
    /\ nested_ret = <<>>
    /\ stats = NoStats
    /\ total_visited = -1
    /\ page \in SeqsUpTo(ExtractElems, MaxPageElems)
    /\ info = << >>

NextExtract == Extract

SpecExtract == InitExtract /\ [][NextExtract]_vars

\* ------------------------------------------------ count_statistics on its own
\* The two kinds of node the trees are made of: a plain node, and a flat item
\* that carries a location.
StatNode(v) ==
    IF v = 0 THEN [name |-> <<"n">>, type |-> "level"]
    ELSE [name |-> <<"n">>, type |-> "flat_item", location_name |-> <<"l">>]

\* The child slot of a node at a level of the tree.
SlotAt(level) ==
    IF level = 0 THEN "subcategories" ELSE IF level = 1 THEN "units" ELSE "subunits"

\* Every forest of exactly n nodes whose roots sit at `level`; a node without
\* children has no child slot.
RECURSIVE Forests(_, _)
Forests(n, level) ==
    IF n = 0 THEN { <<>> }
    ELSE UNION { { <<Attach(StatNode(v), SlotAt(level), kids)>> \o rest :
                      v \in {0, 1},
                      kids \in Forests(k - 1, level + 1),
                      rest \in Forests(n - k, level) } : k \in 1..n }

StatTrees == UNION { Forests(n, 0) : n \in 0..MaxStatNodes }

InitStats ==
    /\ visited_urls = {}
    /\ web = [u \in URLs |-> <<>>]
    /\ failures = 0
    /\ log = <<>>
    /\ stack = <<>>
    /\ phase = "done"
    /\ max_depth = DEFAULT_MAX_DEPTH
    /\ components_data \in StatTrees
    /\ nested_ret = <<>>
    /\ stats = NoStats
    /\ total_visited = -1
    /\ page = <<>>
    /\ info = << >>

NextStats == Report

SpecStats == InitStats /\ [][NextStats]_vars

\* ------------------------------------------------- the end-to-end directory
\* Entry 0 lists branches 1 and 6.  Branch 1 has the flat subcategory 2 with
\* the leaves 3, 4, 5, of which 4 carries a location.  Branch 6 has the nested
\* subcategory 7 with the single item 8, whose children are 9 and 10; 10 is
\* itself nested and lists 11.
E2EUrls == 0..11

E2EPage(u) ==
    CASE u = 0  -> <<Link(H4, 1), Link(H4, 6)>>
      [] u = 1  -> <<Link(H4, 2)>>
      [] u = 2  -> <<Link(FLAT, 3), Link(FLAT, 4), Link(FLAT, 5)>>
      [] u = 4  -> <<Elem(<<"l">>, None, {"flat", "loc"})>>
      [] u = 6  -> <<Link(H4, 7)>>
      [] u = 7  -> <<Link(TOP, 8)>>
      [] u = 8  -> <<Link(TOP, 9), Link(TOP, 10)>>
      [] u = 10 -> <<Link(TOP, 11)>>
      [] OTHER  -> <<>>

InitE2E ==
    /\ visited_urls = {}
    /\ web = [u \in E2EUrls |-> <<E2EPage(u)>>]
    /\ failures = 0
    /\ log = <<>>
    /\ stack = <<>>
    /\ phase = "start"
    /\ max_depth = 1
    /\ components_data = <<>>
    /\ nested_ret = <<>>
    /\ stats = NoStats
    /\ total_visited = -1
    /\ page = <<>>
    /\ info = << >>

SpecE2E == InitE2E /\ [][Next]_vars

\* ----------------------------------------------------- what the tree holds
\* The children of a node, whichever slot holds them.
Children(node) ==
    Get(node, "subcategories") \o Get(node, "units") \o Get(node, "subunits")

\* Every node of a forest.
RECURSIVE NodesIn(_)
NodesIn(items) ==
    IF items = <<>> THEN {}
    ELSE {Head(items)} \cup NodesIn(Children(Head(items))) \cup NodesIn(Tail(items))

\* Every node built so far: returned, accumulated in a running loop, or
\* waiting for its children.
Produced ==
    NodesIn(components_data) \cup NodesIn(nested_ret)
        \cup UNION { NodesIn(stack[i].acc) : i \in DOMAIN stack }
        \cup { stack[i].node : i \in { j \in DOMAIN stack : stack[j].node # NoNode } }

MaxTag == DEFAULT_MAX_DEPTH + 3

\* C1: in a nested pass with max_depth = M no produced node is tagged
\* level_k_item with k > M + 1, and no fetch is issued for a URL that was
\* discovered on a page deeper than M.
C1_DepthBound ==
    /\ \A n \in Produced : \A k \in 1..MaxTag :
          n.type = LevelTag(k) => k <= max_depth + 1
    /\ \A i \in DOMAIN log : log[i].depth <= max_depth

\* A finished pass with M >= 2 that built a node of the deepest level and
\* fetched a link found at depth M.
C1_Witness ==
    /\ phase = "done" /\ max_depth >= 2
    /\ \E n \in NodesIn(nested_ret) : n.type = LevelTag(max_depth + 1)
    /\ \E i \in DOMAIN log : log[i].depth = max_depth /\ log[i].by = "flat"

\* --------------------------------------------------------------- C2 .. C6
NestedPassFetch(entry) == entry.by \in {"page", "child"}

\* C2: the URLs fetched by the nested pass (the page a pass is entered on and
\* its child links) are pairwise distinct, and the reported count of visited
\* URLs is the size of the visited set.
C2_NoDuplicateFetch ==
    /\ \A i, j \in DOMAIN log :
          (i < j /\ NestedPassFetch(log[i]) /\ NestedPassFetch(log[j]))
              => log[i].url # log[j].url
    /\ phase = "reported" => total_visited = Cardinality(visited_urls)

ChildSlots == {"subcategories", "units", "subunits"}

\* C3: no node carries an empty child list; a node without children has no
\* child key.
C3_AbsenceOverEmptiness ==
    \A n \in Produced : \A slot \in ChildSlots :
        slot \in DOMAIN n => n[slot] # <<>>

\* A finished run with a subcategory that has no units key, an item that has
\* no subunits key and an item that has subunits.
C3_Witness ==
    /\ phase = "reported"
    /\ \E n \in NodesIn(components_data) :
          n.type = "subcategory" /\ "units" \notin DOMAIN n
    /\ \E n \in NodesIn(components_data) :
          n.type = LevelTag(1) /\ "subunits" \notin DOMAIN n
    /\ \E n \in NodesIn(components_data) : "subunits" \in DOMAIN n

\* C4: every node of the tree, of whatever type, has a non-empty name.
C4_NonEmptyNames == \A n \in Produced : n.name # <<>>

LastFetch == log'[Len(log')]

BareKeys == {"name", "url", "type"}

\* What a step that ends in a failed fetch must leave behind: the crawl goes
\* on, the loop keeps every remaining sibling, and the page counts as absent.
AbsorbedStep ==
    /\ phase' = "crawl"
    /\ CASE LastFetch.by \in {"branch", "subcat"} ->
              /\ Len(stack') = Len(stack)
              /\ stack'[1] = [Top EXCEPT !.todo = Tail(Top.todo)]
              /\ Tail(stack') = Rest
         [] LastFetch.by \in {"child", "flat"} ->
              /\ Len(stack') = Len(stack)
              /\ stack'[1].todo = Tail(Top.todo)
              /\ Len(stack'[1].acc) = Len(Top.acc) + 1
              /\ SubSeq(stack'[1].acc, 1, Len(Top.acc)) = Top.acc
              /\ DOMAIN stack'[1].acc[Len(Top.acc) + 1] = BareKeys
              /\ Tail(stack') = Rest
         [] LastFetch.by = "page" ->
              /\ Len(stack') = Len(stack) - 1
              /\ stack'[1].todo = stack[2].todo
              /\ stack'[1].acc = Append(stack[2].acc, Top.node)
              /\ DOMAIN Top.node \cap ChildSlots = {}
              /\ Tail(stack') = Tail(Rest)

\* C5: a failed fetch of any page but the entry page does not abort the
\* crawl: the page is treated as absent (no metadata, no children) and the
\* remaining siblings are still processed.
C5_FailureAbsorbed ==
    [][ (Len(log') = Len(log) + 1 /\ ~LastFetch.ok /\ LastFetch.by # "entry")
            => AbsorbedStep ]_vars

\* A reported run in which a branch page failed and a later branch page
\* was fetched and its branch added to the result.
C5_Witness ==
    /\ phase = "reported"
    /\ components_data # <<>>
    /\ \E i, j \in DOMAIN log :
          i < j /\ log[i].by = "branch" /\ ~log[i].ok /\ log[j].by = "branch" /\ log[j].ok

\* C6: when the entry fetch fails the run returns the empty list, fetches
\* nothing else and leaves the visited set empty.
C6_EntryFailure ==
    (log # <<>> /\ ~log[1].ok) =>
        /\ Len(log) = 1
        /\ components_data = <<>>
        /\ visited_urls = {}
        /\ stack = <<>>
        /\ phase \in {"done", "reported"}

\* The report of a run whose entry fetch failed.
C6_Witness ==
    /\ phase = "reported"
    /\ ~log[1].ok
    /\ stats.main_branches = 0 /\ total_visited = 0

\* --------------------------------------------------------------- C7 .. C10
\* The index paths of the nodes of a forest whose roots sit at `level`: <<i>>
\* is the i-th root, <<i, j>> its j-th child, and so on.
RECURSIVE PathsAt(_, _)
PathsAt(items, level) ==
    UNION { { <<i>> } \cup { <<i>> \o q : q \in PathsAt(Get(items[i], SlotAt(level)), level + 1) }
            : i \in DOMAIN items }

\* C7: units is the number of nodes in the units lists of the subcategories
\* of the branches, subunits the number of nodes below them.
C7_StatsConsistency ==
    phase = "reported" =>
        /\ stats.units =
              Cardinality({ q \in PathsAt(components_data, 0) : Len(q) = 3 })
        /\ stats.subunits =
              Cardinality({ q \in PathsAt(components_data, 0) : Len(q) >= 4 })

\* The statistics of a tree that has a subunit below a subunit, and a
\* subcategory without a units field.
C7_Witness ==
    /\ phase = "reported"
    /\ stats.subunits >= 2
    /\ \E q \in PathsAt(components_data, 0) : Len(q) = 5
    /\ \E n \in NodesIn(components_data) : DOMAIN n \cap ChildSlots = {}

RECURSIVE Deepest(_)
Deepest(items) ==
    IF items = <<>> THEN -1
    ELSE LET below == 1 + Deepest(Get(Head(items), "subunits"))
             rest == Deepest(Tail(items))
         IN  IF below > rest THEN below ELSE rest

\* C9: with the default max_depth no node below a subcategory, level items
\* and flat items alike, is deeper than 3, the units list being depth 0.
C9_DepthAtMostThree ==
    \A n \in Produced :
        n.type = "subcategory" => Deepest(Get(n, "units")) <= 3

\* A finished default run whose tree holds a level_4_item, at depth 3.
C9_Witness ==
    /\ phase = "reported" /\ max_depth = 3
    /\ \E n \in NodesIn(components_data) :
          n.type = "subcategory" /\ Deepest(Get(n, "units")) = 3
    /\ \E n \in NodesIn(components_data) : n.type = LevelTag(4)

SetMin(S) == CHOOSE x \in S : \A y \in S : x <= y
SetMax(S) == CHOOSE x \in S : \A y \in S : y <= x

\* The text between the first and the last character that is not a space.
Stripped(t) ==
    LET solid == { i \in DOMAIN t : t[i] # SP }
    IN  IF solid = {} THEN <<>> ELSE SubSeq(t, SetMin(solid), SetMax(solid))

MatchesOf(doc, key) == { i \in DOMAIN doc : Matches(doc[i], key) }

Keys == {"full_unit_name", "location_name", "location_details"}

\* C10 as claimed: a field without a matching element has no key, no key
\* holds an empty value, and the call fetches nothing and leaves the visited
\* set alone.
C10_NoEmptyValue ==
    phase = "extracted" =>
        /\ DOMAIN info \subseteq Keys
        /\ \A key \in Keys :
              /\ MatchesOf(page, key) = {} => key \notin DOMAIN info
              /\ key \in DOMAIN info => info[key] # <<>>
        /\ log = <<>> /\ visited_urls = {TARGET_URL}

\* C10 amended: a field has a key exactly when an element matches, and the
\* key then holds the stripped text of the first match, which may be empty;
\* the call fetches nothing and leaves the visited set alone.
C10_OmissionOnly ==
    phase = "extracted" =>
        /\ DOMAIN info \subseteq Keys
        /\ \A key \in Keys :
              /\ MatchesOf(page, key) = {} => key \notin DOMAIN info
              /\ MatchesOf(page, key) # {} =>
                    /\ key \in DOMAIN info
                    /\ info[key] = Stripped(page[SetMin(MatchesOf(page, key))].text)
        /\ log = <<>> /\ visited_urls = {TARGET_URL}

\* An extraction that omits one field, sets one to a non-empty text and sets
\* one to the empty text of a blank first match.
C10_Witness ==
    /\ phase = "extracted"
    /\ \E key \in Keys : key \notin DOMAIN info
    /\ \E key \in DOMAIN info : info[key] = <<>>
    /\ \E key \in DOMAIN info : info[key] # <<>>

\* -------------------------------------------------------------- C11 .. C20
\* The URLs of the links a page lists, whatever pattern they match.
LinksOf(u) == IF web[u] = <<>> THEN {}
              ELSE { web[u][1][i].href : i \in DOMAIN web[u][1] }

\* C11: whatever the link graph (cycles, back-references, self-links, shared
\* links) and whatever fetches fail, scrape_main_components eventually
\* returns.
C11_Terminates == <>(phase = "done" /\ stack = <<>>)

\* A returned crawl of a directory with a cycle: a nested page that was
\* entered lists itself, and another entered page links back to the entry.
C11_Witness ==
    /\ phase = "done" /\ stack = <<>>
    /\ \E i \in DOMAIN log :
          log[i].by = "page" /\ log[i].ok /\ log[i].url \in LinksOf(log[i].url)
    /\ \E i \in DOMAIN log :
          log[i].by = "page" /\ log[i].ok /\ TARGET_URL \in LinksOf(log[i].url)

\* The running nested passes, innermost first.
NestedFrames == { i \in DOMAIN stack : stack[i].fn = "nested" /\ stack[i].pc = "loop" }

\* The pages the nested pass is in the middle of: the page whose children are
\* being processed and the pages above it.
AncestorUrls == { stack[i].url : i \in NestedFrames }

\* The children already built for those pages: the earlier siblings of the
\* link at hand and of the pages above it.
SiblingUrls ==
    UNION { { stack[i].acc[k].url : k \in DOMAIN stack[i].acc } : i \in NestedFrames }

\* The nested pass is about to process a child link.
AtChildLink ==
    /\ phase = "crawl" /\ stack # <<>>
    /\ Top.fn = "nested" /\ Top.pc = "loop" /\ Top.todo # <<>>

\* C12: a page is marked visited before its children are processed, and a
\* child link that points back to an ancestor or to a sibling is neither
\* fetched nor recursed into.
C12_NoRevisit ==
    /\ [](AncestorUrls \subseteq visited_urls)
    /\ [][ (AtChildLink /\ Head(Top.todo).href \in AncestorUrls \cup SiblingUrls)
              => (log' = log /\ stack' = <<Advance(Top)>> \o Rest) ]_vars

\* A nested pass is about to run its terminal check.
AtNestedEntry ==
    /\ phase = "crawl" /\ stack # <<>>
    /\ Top.fn = "nested" /\ Top.pc = "enter"

\* C13: a nested pass entered on a visited URL, or at a depth greater than
\* max_depth, returns the empty list without a fetch and leaves the visited
\* set as it was.
C13_TerminalReturn ==
    [][ (AtNestedEntry /\ (Top.url \in visited_urls \/ Top.depth > max_depth))
          => /\ log' = log
             /\ visited_urls' = visited_urls
             /\ Len(stack') = Len(stack) - 1
             /\ IF Rest = <<>>
                THEN nested_ret' = <<>> /\ phase' = "done"
                ELSE /\ stack'[1].acc = Append(stack[2].acc, Top.node)
                     /\ DOMAIN Top.node \cap ChildSlots = {} ]_vars

\* A pass invoked deeper than max_depth on a URL that was not visited: it has
\* returned the empty list, nothing was fetched and nothing is visited.
C13_Witness ==
    /\ phase = "done" /\ stack = <<>>
    /\ log = <<>> /\ nested_ret = <<>>
    /\ visited_urls = {}

\* C14: at depth = max_depth a child that is admitted costs one fetch, starts
\* neither a nested pass nor a flat extraction, and is appended as a node
\* without subunits, whatever its page looks like.
C14_LeafAtMaxDepth ==
    /\ [](\A n \in Produced :
            n.type = LevelTag(max_depth + 1) => DOMAIN n \cap ChildSlots = {})
    /\ [][ (AtChildLink /\ Top.depth = max_depth /\ log' # log)
              => /\ Len(log') = Len(log) + 1
                 /\ LastFetch.url = Head(Top.todo).href /\ LastFetch.by = "child"
                 /\ Len(stack') = Len(stack)
                 /\ Tail(stack') = Rest
                 /\ stack'[1].todo = Tail(Top.todo)
                 /\ Len(stack'[1].acc) = Len(Top.acc) + 1
                 /\ LET item == stack'[1].acc[Len(Top.acc) + 1]
                    IN  /\ item.url = Head(Top.todo).href
                        /\ item.type = LevelTag(max_depth + 1)
                        /\ DOMAIN item \cap ChildSlots = {} ]_vars

\* A returned pass with max_depth >= 1 that built, at depth max_depth, a leaf
\* whose own page is a nested list and a leaf whose own page is a flat roster.
C14_Witness ==
    /\ phase = "done" /\ max_depth >= 1
    /\ \E n \in NodesIn(nested_ret) :
          /\ n.type = LevelTag(max_depth + 1)
          /\ web[n.url] # <<>> /\ has_nested_structure(web[n.url][1])
    /\ \E n \in NodesIn(nested_ret) :
          /\ n.type = LevelTag(max_depth + 1)
          /\ web[n.url] # <<>> /\ ~has_nested_structure(web[n.url][1])
          /\ Select(web[n.url][1], "flat_list") # <<>>

\* (name, url) of the links of page u that a selector picks, in the order the
\* page lists them.
LinkSeq(u, selector) ==
    LET S == IF web[u] = <<>> THEN <<>> ELSE Select(web[u][1], selector)
    IN  [ i \in 1..Len(S) |-> <<get_text(S[i]), S[i].href>> ]

\* (name, url) of the nodes of a list.
NodeSeq(items) == [ i \in 1..Len(items) |-> <<items[i].name, items[i].url>> ]

\* Whether a can be obtained from b by dropping elements.
RECURSIVE IsSubseq(_, _)
IsSubseq(a, b) ==
    IF a = <<>> THEN TRUE
    ELSE IF b = <<>> THEN FALSE
    ELSE IF Head(a) = Head(b) THEN IsSubseq(Tail(a), Tail(b))
    ELSE IsSubseq(a, Tail(b))

IsSuffix(a, b) ==
    Len(a) <= Len(b) /\ a = SubSeq(b, Len(b) - Len(a) + 1, Len(b))

\* The selector that picked the children of a node, told by their type.
ChildSelector(kids) ==
    IF kids[1].type = "flat_item" THEN "flat_list"
    ELSE LevelSelector(CHOOSE k \in 0..MaxTag : kids[1].type = LevelTag(k + 1))

\* The selector a running nested pass or flat extraction iterates over.
FrameSelector(fr) == IF fr.fn = "flat" THEN "flat_list" ELSE LevelSelector(fr.depth)

ListFrames ==
    { i \in DOMAIN stack :
        stack[i].fn = "flat" \/ (stack[i].fn = "nested" /\ stack[i].pc = "loop") }

\* C15: child lists are in document order.  Every child list of the tree is
\* a subsequence of the links its page lists; a running loop has the rest of
\* its page's links still to do and has built a subsequence of the ones
\* before; each fetch is for the first link the innermost running loop has
\* left, the loops around it standing still; and a pass entered for a child
\* fetches its page right after the child's own fetch.
C15_DocumentOrder ==
    /\ [](\A n \in Produced : \A slot \in {"units", "subunits"} :
            slot \in DOMAIN n =>
                IsSubseq(NodeSeq(n[slot]), LinkSeq(n.url, ChildSelector(n[slot]))))
    /\ [](\A i \in ListFrames :
            LET all == LinkSeq(stack[i].url, FrameSelector(stack[i]))
                left == [ k \in 1..Len(stack[i].todo) |->
                            <<get_text(stack[i].todo[k]), stack[i].todo[k].href>> ]
            IN  /\ IsSuffix(left, all)
                /\ IsSubseq(NodeSeq(stack[i].acc),
                            SubSeq(all, 1, Len(all) - Len(left))))
    /\ [](\A i \in DOMAIN log :
            (log[i].by = "page" /\ log[i].depth >= 1) =>
                /\ i > 1
                /\ log[i - 1].by = "child" /\ log[i - 1].ok
                /\ log[i - 1].url = log[i].url
                /\ log[i - 1].depth = log[i].depth - 1)
    /\ [][ (Len(log') = Len(log) + 1 /\ LastFetch.by \in {"child", "flat"})
              => /\ LastFetch.url = Head(Top.todo).href
                 /\ IsSuffix(Rest, stack') ]_vars

\* A returned pass whose list holds two children in the page's order, the
\* first with a subtree of its own that was crawled before the second child
\* was fetched, and somewhere a flat list of two items.
C15_Witness ==
    /\ phase = "done" /\ Len(nested_ret) = 2
    /\ "subunits" \in DOMAIN nested_ret[1]
    /\ nested_ret[1].url # nested_ret[2].url
    /\ \E i, j, k \in DOMAIN log :
          /\ i < j /\ j < k
          /\ log[i].url = nested_ret[1].url /\ log[i].by = "child"
          /\ log[j].depth >= 1
          /\ log[k].url = nested_ret[2].url /\ log[k].by = "child" /\ log[k].depth = 0
    /\ \E n \in NodesIn(nested_ret) :
          /\ "subunits" \in DOMAIN n
          /\ Len(n.subunits) = 2 /\ n.subunits[1].type = "flat_item"

\* The main-branch nodes built so far: returned, or accumulated by the
\* top-level loop.
MainBranches ==
    IF stack # <<>> /\ stack[Len(stack)].fn = "main"
    THEN stack[Len(stack)].acc
    ELSE components_data

\* C16: a main-branch candidate whose URL is visited is skipped without a
\* fetch and without a node; a branch whose subcategories are done has its
\* URL marked visited; no two main_branch nodes have the same URL.
C16_BranchOnce ==
    /\ [](\A i, j \in DOMAIN MainBranches :
            i < j => MainBranches[i].url # MainBranches[j].url)
    /\ [][ (phase = "crawl" /\ stack # <<>> /\ Top.fn = "main" /\ Top.todo # <<>>
                /\ Head(Top.todo).href \in visited_urls)
              => (log' = log /\ stack' = <<[Top EXCEPT !.todo = Tail(Top.todo)]>>) ]_vars
    /\ [][ (phase = "crawl" /\ stack # <<>> /\ Top.fn = "branch" /\ Top.todo = <<>>)
              => /\ Top.url \in visited_urls'
                 /\ Len(stack') = 1
                 /\ Len(stack'[1].acc) = Len(stack[2].acc) + 1
                 /\ stack'[1].acc[Len(stack'[1].acc)].url = Top.url ]_vars

\* A returned crawl whose entry page lists one branch twice and got one node
\* for it.
C16_SameBranchTwice ==
    /\ phase = "done" /\ web[TARGET_URL] # <<>>
    /\ LET a == Select(web[TARGET_URL][1], MAIN_SELECTOR)
       IN  /\ Len(a) = 2 /\ a[1].href = a[2].href
           /\ Len(components_data) = 1
           /\ components_data[1].url = a[1].href

\* A returned crawl whose second branch was skipped because a nested pass had
\* been entered on its URL.
C16_Witness ==
    /\ phase = "done" /\ web[TARGET_URL] # <<>>
    /\ LET a == Select(web[TARGET_URL][1], MAIN_SELECTOR)
       IN  /\ Len(a) = 2 /\ a[1].href # a[2].href
           /\ Len(components_data) = 1
           /\ \E i \in DOMAIN log : log[i].by = "page" /\ log[i].url = a[2].href
           /\ \A i \in DOMAIN log : log[i].by = "branch" => log[i].url # a[2].href

\* C17: the visited set is cleared by the first step of the run, before any
\* fetch, and no later step removes a URL from it.
C17_VisitedOnlyGrows ==
    [][ /\ (phase = "start" => (log = <<>> /\ visited_urls' = {}))
        /\ (phase # "start" => visited_urls \subseteq visited_urls') ]_vars

\* A reported run whose visited set grew by nested passes and by branches.
C17_Witness ==
    /\ phase = "reported"
    /\ Cardinality(visited_urls) >= 3
    /\ \E n \in NodesIn(components_data) : n.type = "main_branch" /\ n.url \in visited_urls
    /\ \E i \in DOMAIN log : log[i].by = "page" /\ log[i].depth >= 1
    /\ Len(components_data) >= 2

\* The URLs on which a nested pass was entered and could not fetch its page.
FailedPassUrls == { log[i].url : i \in { j \in DOMAIN log : log[j].by = "page" /\ ~log[j].ok } }

\* C18: a nested pass whose page fetch fails returns the empty list and
\* leaves its URL visited; from then on a link to that URL is skipped by the
\* nested pass (no fetch, no node) and a pass invoked on it returns at once,
\* although a fetch would succeed.
C18_FailedPassStaysVisited ==
    /\ [](FailedPassUrls \subseteq visited_urls)
    /\ [](\A i, j \in DOMAIN log :
            (i < j /\ log[i].by = "page" /\ ~log[i].ok /\ log[j].url = log[i].url)
                => log[j].by \notin {"page", "child"})
    /\ [][ (Len(log') = Len(log) + 1 /\ LastFetch.by = "page" /\ ~LastFetch.ok)
              => /\ Len(stack') = Len(stack) - 1
                 /\ IF Rest = <<>> THEN nested_ret' = <<>> /\ phase' = "done"
                    ELSE /\ stack'[1].acc = Append(stack[2].acc, Top.node)
                         /\ DOMAIN Top.node \cap ChildSlots = {} ]_vars
    /\ [][ (AtChildLink /\ Head(Top.todo).href \in FailedPassUrls)
              => (log' = log /\ stack' = <<[Top EXCEPT !.todo = Tail(Top.todo)]>> \o Rest) ]_vars
    /\ [][ (AtNestedEntry /\ Top.url \in FailedPassUrls)
              => (log' = log /\ Len(stack') = Len(stack) - 1) ]_vars

\* A returned pass on page 0: a pass entered on a deeper page for one of the
\* URLs page 0 lists failed to fetch it, and when page 0's own link to that
\* URL came up it was skipped, although no further fetch could fail.
C18_Witness ==
    /\ phase = "done" /\ failures = MaxFailures
    /\ TARGET_URL \notin FailedPassUrls
    /\ \E u \in FailedPassUrls :
          /\ \E k \in DOMAIN LinkSeq(TARGET_URL, "first_level") :
                /\ LinkSeq(TARGET_URL, "first_level")[k][1] # <<>>
                /\ LinkSeq(TARGET_URL, "first_level")[k][2] = u
          /\ \A k \in DOMAIN nested_ret : nested_ret[k].url # u
          /\ \E i \in DOMAIN log : log[i].by = "page" /\ ~log[i].ok
                                     /\ log[i].url = u /\ log[i].depth >= 2

\* A flat extraction is about to process a flat-list link.
AtFlatLink ==
    /\ phase = "crawl" /\ stack # <<>>
    /\ Top.fn = "flat" /\ Top.todo # <<>>

\* Line 64 as the claim states it: the element has a name and an href.
Admitted(e) == get_text(e) # <<>> /\ e.href # None

\* C19: no step of a flat extraction changes the visited set; an admitted
\* flat element costs exactly one fetch, of its own URL, whether that URL is
\* visited or not, and is appended as a flat_item without children; an
\* element that is not admitted costs nothing and gives no node.
C19_FlatIgnoresVisited ==
    /\ [](\A n \in Produced : n.type = "flat_item" => DOMAIN n \cap ChildSlots = {})
    /\ [][ (phase = "crawl" /\ stack # <<>> /\ Top.fn = "flat")
              => visited_urls' = visited_urls ]_vars
    /\ [][ (AtFlatLink /\ Admitted(Head(Top.todo)))
              => /\ Len(log') = Len(log) + 1
                 /\ LastFetch.url = Head(Top.todo).href /\ LastFetch.by = "flat"
                 /\ Len(stack') = Len(stack) /\ Tail(stack') = Rest
                 /\ stack'[1].todo = Tail(Top.todo)
                 /\ Len(stack'[1].acc) = Len(Top.acc) + 1
                 /\ SubSeq(stack'[1].acc, 1, Len(Top.acc)) = Top.acc
                 /\ LET item == stack'[1].acc[Len(Top.acc) + 1]
                    IN  /\ item.url = Head(Top.todo).href
                        /\ item.type = "flat_item"
                        /\ DOMAIN item \cap ChildSlots = {} ]_vars
    /\ [][ (AtFlatLink /\ ~Admitted(Head(Top.todo)))
              => (log' = log /\ stack' = <<[Top EXCEPT !.todo = Tail(Top.todo)]>> \o Rest) ]_vars

\* A returned pass in which a flat extraction fetched a URL that a nested pass
\* had been entered on before, and made a flat_item of it.
C19_Witness ==
    /\ phase = "done"
    /\ \E i, j \in DOMAIN log :
          /\ i < j
          /\ log[i].by = "page" /\ log[j].by = "flat" /\ log[j].ok
          /\ log[j].url = log[i].url
          /\ log[j].url \in visited_urls
          /\ \E n \in NodesIn(nested_ret) : n.type = "flat_item" /\ n.url = log[j].url

FetchedUrls == { log[i].url : i \in DOMAIN log }

\* The URLs on which a nested pass got past its terminal check.
EnteredUrls == { log[i].url : i \in { j \in DOMAIN log : log[j].by = "page" } }

BranchUrls == { components_data[i].url : i \in DOMAIN components_data }

\* The kinds of fetch that serve metadata or classification only.
MetadataOnly(u) ==
    \A i \in DOMAIN log : log[i].url = u => log[i].by \in {"entry", "subcat", "child", "flat"}

\* C20: when the run has returned, the visited set is the URLs of the main
\* branches of the result together with the URLs a nested pass was entered
\* on; each had a fetch attempted; a URL fetched for metadata only that is no
\* main branch of the result is not in it; and the reported total is the size
\* of the set, at most the number of distinct URLs fetched.
C20_VisitedAtEnd ==
    phase \in {"done", "reported"} =>
        /\ visited_urls = BranchUrls \cup EnteredUrls
        /\ visited_urls \subseteq FetchedUrls
        /\ \A u \in FetchedUrls :
              (MetadataOnly(u) /\ u \notin BranchUrls) => u \notin visited_urls
        /\ phase = "reported" =>
              /\ total_visited = Cardinality(visited_urls)
              /\ total_visited <= Cardinality(FetchedUrls)

\* A report whose total is smaller than the number of distinct URLs fetched:
\* the visited set holds a branch and an entered page, and neither the entry
\* URL, nor a flat-classified subcategory, nor a leaf child, nor a flat item.
C20_Witness ==
    /\ phase = "reported"
    /\ total_visited < Cardinality(FetchedUrls)
    /\ BranchUrls # {} /\ EnteredUrls # {}
    /\ TARGET_URL \notin visited_urls
    /\ \E i \in DOMAIN log :
          log[i].by = "flat" /\ log[i].ok /\ log[i].url \notin visited_urls
    /\ \E i \in DOMAIN log :
          log[i].by = "child" /\ log[i].ok /\ log[i].url \notin visited_urls
    /\ \E i \in DOMAIN log :
          /\ log[i].by = "subcat" /\ log[i].ok /\ log[i].url \notin visited_urls
          /\ ~has_nested_structure(web[log[i].url][1])
====
